---- MODULE Spec2Model ----
(***************************************************************************)
(* Model of kittik-cursor: the Cell record (src/src/Cell.js) and the       *)
(* Cursor virtual screen with its flush/diff algorithm                     *)
(* (src/src/Cursor.js).                                                    *)
(*                                                                         *)
(* Representation.                                                         *)
(*  - A JS string is a sequence of one-unit strings: 'AB' is <<"A","B">>,  *)
(*    '' is <<>>.  A control sequence produced by encodeToVT100 is one     *)
(*    element (a token) of such a sequence, so string concatenation is     *)
(*    sequence concatenation and string equality is sequence equality.     *)
(*  - A JS array is a function over 0 .. length-1.                         *)
(*  - A JS number argument n is given in halves (h = 2n), so that          *)
(*    Math.floor has something to truncate: 3 stands for 1.5.              *)
(*  - The Cursor object is the record held by the variable cursor; every   *)
(*    method is an operator from the object to the object it returns.      *)
(*  - The variable cellObj holds a Cell object a client has made with      *)
(*    new Cell() and drives through the Cell methods directly.             *)
(***************************************************************************)
EXTENDS Integers, Sequences, FiniteSets, TLC

VARIABLES cursor, cellObj, budget, last, lastFlush

vars == <<cursor, cellObj, budget, last, lastFlush>>

(***************************************************************************)
(* Bounds of the model.                                                    *)
(***************************************************************************)
width == 2
height == 2
MaxCalls == 2
MaxText == 2

(***************************************************************************)
(* util/displayModes.js                                                    *)
(***************************************************************************)
ESC == "\\u001b"

DISPLAY_MODES ==
  [RESET_ALL |-> "[0m", BOLD |-> "[1m", DIM |-> "[2m", UNDERLINED |-> "[4m",
   BLINK |-> "[5m", REVERSE |-> "[7m", HIDDEN |-> "[8m"]

encodeToVT100(code) == ESC \o code

(***************************************************************************)
(* util/colors.js: the colour table (name -> terminal code).               *)
(***************************************************************************)
COLORS == [BLACK |-> 0, YELLOW |-> 11, WHITE |-> 15]

\* String.prototype.toUpperCase on the colour names the model uses.
toUpperCase(s) ==
  CASE s = "none" -> "NONE"
    [] s = "black" -> "BLACK"
    [] s = "yellow" -> "YELLOW"
    [] s = "white" -> "WHITE"
    [] s = "bogus" -> "BOGUS"
    [] OTHER -> s

\* JS truthiness of COLORS[color]: undefined (no such key) and 0 are falsy.
truthyColor(color) == color \in DOMAIN COLORS /\ COLORS[color] # 0

(***************************************************************************)
(* Number helpers.                                                         *)
(***************************************************************************)
\* Math.floor of a number given in halves.
floor(h) == h \div 2

\* An integer as a number in halves.
num(n) == 2 * n

(***************************************************************************)
(* Cell.js                                                                 *)
(***************************************************************************)
NoDisplay ==
  [bold |-> FALSE, dim |-> FALSE, underlined |-> FALSE, blink |-> FALSE,
   reverse |-> FALSE, hidden |-> FALSE]

slice01(str) == IF Len(str) = 0 THEN <<>> ELSE <<str[1]>>

setChar(cell, char) == [cell EXCEPT !.char = slice01(char)]

setX(cell, h) == [cell EXCEPT !.x = floor(h)]

setY(cell, h) == [cell EXCEPT !.y = floor(h)]

setBackground(cell, colorName) ==
  LET color == toUpperCase(colorName)
  IN  [cell EXCEPT !.background = IF truthyColor(color) THEN color ELSE "none"]

setForeground(cell, colorName) ==
  LET color == toUpperCase(colorName)
  IN  [cell EXCEPT !.foreground = IF truthyColor(color) THEN color ELSE "none"]

setDisplay(cell, bold, dim, underlined, blink, reverse, hidden) ==
  [cell EXCEPT !.display =
     [bold |-> bold, dim |-> dim, underlined |-> underlined, blink |-> blink,
      reverse |-> reverse, hidden |-> hidden]]

setModified(cell, isModified) == [cell EXCEPT !.modified = isModified]

isModified(cell) == cell.modified

\* reset that does not mark the cell as modified.
Cell_reset_NotDirty(cell) ==
  setDisplay(
    setForeground(setBackground(setChar(cell, <<" ">>), "none"), "none"),
    FALSE, FALSE, FALSE, FALSE, FALSE, FALSE)

\* reset that also puts the cell back at the origin.
Cell_reset_Origin(cell) ==
  setModified(
    setDisplay(
      setForeground(
        setBackground(setChar(setY(setX(cell, num(0)), num(0)), <<" ">>), "none"),
        "none"),
      FALSE, FALSE, FALSE, FALSE, FALSE, FALSE),
    TRUE)

Cell_reset(cell) ==
  setModified(
    setDisplay(
      setForeground(setBackground(setChar(cell, <<" ">>), "none"), "none"),
      FALSE, FALSE, FALSE, FALSE, FALSE, FALSE),
    TRUE)

\* new Cell() without the final setModified(false): the cell starts dirty.
NewCell_Dirty ==
  [char |-> <<" ">>, x |-> 0, y |-> 0, background |-> "none",
   foreground |-> "none", display |-> NoDisplay, modified |-> TRUE]

\* new Cell(): the constructor called without arguments.
NewCell ==
  [char |-> <<" ">>, x |-> 0, y |-> 0, background |-> "none",
   foreground |-> "none", display |-> NoDisplay, modified |-> FALSE]

\* toString with the foreground code before the background code.
toString_ForegroundFirst(cell) ==
  <<encodeToVT100("[" \o ToString(cell.y + 1) \o ";" \o ToString(cell.x + 1) \o "f")>>
  \o (IF cell.foreground # "none"
        THEN <<encodeToVT100("[38;5;" \o ToString(COLORS[cell.foreground]) \o "m")>>
        ELSE <<>>)
  \o (IF cell.background # "none"
        THEN <<encodeToVT100("[48;5;" \o ToString(COLORS[cell.background]) \o "m")>>
        ELSE <<>>)
  \o (IF cell.display.bold THEN <<encodeToVT100(DISPLAY_MODES.BOLD)>> ELSE <<>>)
  \o (IF cell.display.dim THEN <<encodeToVT100(DISPLAY_MODES.DIM)>> ELSE <<>>)
  \o (IF cell.display.underlined THEN <<encodeToVT100(DISPLAY_MODES.UNDERLINED)>> ELSE <<>>)
  \o (IF cell.display.blink THEN <<encodeToVT100(DISPLAY_MODES.BLINK)>> ELSE <<>>)
  \o (IF cell.display.reverse THEN <<encodeToVT100(DISPLAY_MODES.REVERSE)>> ELSE <<>>)
  \o (IF cell.display.hidden THEN <<encodeToVT100(DISPLAY_MODES.HIDDEN)>> ELSE <<>>)
  \o cell.char
  \o <<encodeToVT100(DISPLAY_MODES.RESET_ALL)>>

\* toString with the position as column;row instead of row;column.
toString_ColumnFirst(cell) ==
  <<encodeToVT100("[" \o ToString(cell.x + 1) \o ";" \o ToString(cell.y + 1) \o "f")>>
  \o (IF cell.background # "none"
        THEN <<encodeToVT100("[48;5;" \o ToString(COLORS[cell.background]) \o "m")>>
        ELSE <<>>)
  \o (IF cell.foreground # "none"
        THEN <<encodeToVT100("[38;5;" \o ToString(COLORS[cell.foreground]) \o "m")>>
        ELSE <<>>)
  \o (IF cell.display.bold THEN <<encodeToVT100(DISPLAY_MODES.BOLD)>> ELSE <<>>)
  \o (IF cell.display.dim THEN <<encodeToVT100(DISPLAY_MODES.DIM)>> ELSE <<>>)
  \o (IF cell.display.underlined THEN <<encodeToVT100(DISPLAY_MODES.UNDERLINED)>> ELSE <<>>)
  \o (IF cell.display.blink THEN <<encodeToVT100(DISPLAY_MODES.BLINK)>> ELSE <<>>)
  \o (IF cell.display.reverse THEN <<encodeToVT100(DISPLAY_MODES.REVERSE)>> ELSE <<>>)
  \o (IF cell.display.hidden THEN <<encodeToVT100(DISPLAY_MODES.HIDDEN)>> ELSE <<>>)
  \o cell.char
  \o <<encodeToVT100(DISPLAY_MODES.RESET_ALL)>>

toString(cell) ==
  <<encodeToVT100("[" \o ToString(cell.y + 1) \o ";" \o ToString(cell.x + 1) \o "f")>>
  \o (IF cell.background # "none"
        THEN <<encodeToVT100("[48;5;" \o ToString(COLORS[cell.background]) \o "m")>>
        ELSE <<>>)
  \o (IF cell.foreground # "none"
        THEN <<encodeToVT100("[38;5;" \o ToString(COLORS[cell.foreground]) \o "m")>>
        ELSE <<>>)
  \o (IF cell.display.bold THEN <<encodeToVT100(DISPLAY_MODES.BOLD)>> ELSE <<>>)
  \o (IF cell.display.dim THEN <<encodeToVT100(DISPLAY_MODES.DIM)>> ELSE <<>>)
  \o (IF cell.display.underlined THEN <<encodeToVT100(DISPLAY_MODES.UNDERLINED)>> ELSE <<>>)
  \o (IF cell.display.blink THEN <<encodeToVT100(DISPLAY_MODES.BLINK)>> ELSE <<>>)
  \o (IF cell.display.reverse THEN <<encodeToVT100(DISPLAY_MODES.REVERSE)>> ELSE <<>>)
  \o (IF cell.display.hidden THEN <<encodeToVT100(DISPLAY_MODES.HIDDEN)>> ELSE <<>>)
  \o cell.char
  \o <<encodeToVT100(DISPLAY_MODES.RESET_ALL)>>

(***************************************************************************)
(* Cursor.js                                                               *)
(***************************************************************************)
\* new Cursor({stream, width, height}) with an empty stream.
NewCursor ==
  [width |-> width, height |-> height, x |-> 0, y |-> 0,
   background |-> "none", foreground |-> "none", display |-> NoDisplay,
   cells |-> [i \in 0 .. (width * height - 1) |-> NewCell],
   lastFrame |-> [i \in 0 .. (width * height - 1) |-> <<>>],
   stream |-> <<>>]

\* Array.prototype.length
length(array) == Cardinality(DOMAIN array)

\* array[i] = value: an assignment past the end makes the array longer.
assign(array, i, value) ==
  [j \in DOMAIN array \cup {i} |-> IF j = i THEN value ELSE array[j]]

\* getPointerFromXY with the coordinates taken the other way round.
getPointerFromXY_Swapped(this, px, py) == px * this.width + py

getPointerFromXY(this, px, py) == py * this.width + px

getXYFromPointer(this, index) ==
  <<index - ((index \div this.width) * this.width), index \div this.width>>

\* writeChar that tests only that the pointer falls inside the grid, not that
\* the position falls inside the viewport.
writeChar_Wrap(this, char) ==
  LET px == this.x
      py == this.y
      pointer == getPointerFromXY(this, px, py)
      display == this.display
      written ==
        IF pointer \in DOMAIN this.cells
          THEN [this EXCEPT !.cells[pointer] =
                 setModified(
                   setDisplay(
                     setForeground(
                       setBackground(
                         setY(setX(setChar(@, char), num(px)), num(py)),
                         this.background),
                       this.foreground),
                     display.bold, display.dim, display.underlined,
                     display.blink, display.reverse, display.hidden),
                   TRUE)]
          ELSE this
  IN  [written EXCEPT !.x = @ + 1]

\* One iteration of the loop of write: the unit char at the cursor position.
writeChar(this, char) ==
  LET px == this.x
      py == this.y
      pointer == getPointerFromXY(this, px, py)
      display == this.display
      written ==
        IF 0 <= px /\ px < this.width /\ 0 <= py /\ py < this.height
          THEN [this EXCEPT !.cells[pointer] =
                 setModified(
                   setDisplay(
                     setForeground(
                       setBackground(
                         setY(setX(setChar(@, char), num(px)), num(py)),
                         this.background),
                       this.foreground),
                     display.bold, display.dim, display.underlined,
                     display.blink, display.reverse, display.hidden),
                   TRUE)]
          ELSE this
  IN  [written EXCEPT !.x = @ + 1]

RECURSIVE writeLoop(_, _, _)
writeLoop(this, data, i) ==
  IF ~(i < Len(data))
    THEN this
    ELSE writeLoop(writeChar(this, <<data[i + 1]>>), data, i + 1)

\* write that sends the text to the stream as well.
write_Through(this, data) ==
  [writeLoop(this, data, 0) EXCEPT !.stream = Append(@, data)]

\* write that puts the pen's colours and flags back to their defaults.
write_ResetsPen(this, data) ==
  [writeLoop(this, data, 0) EXCEPT !.background = "none",
                                   !.foreground = "none",
                                   !.display = NoDisplay]

write(this, data) == writeLoop(this, data, 0)

\* flushCell that writes the changed cell but keeps the old last frame.
flushCell_StaleShadow(this, i) ==
  IF isModified(this.cells[i])
    THEN LET cleared == [this EXCEPT !.cells[i] = setModified(@, FALSE)]
             cellSeq == toString(cleared.cells[i])
         IN  IF cellSeq # this.lastFrame[i]
               THEN [this |-> [cleared EXCEPT !.stream = Append(@, cellSeq)],
                     wrote |-> TRUE]
               ELSE [this |-> cleared, wrote |-> FALSE]
    ELSE [this |-> this, wrote |-> FALSE]

\* flushCell that blanks the cell it has written.
flushCell_ClearsCell(this, i) ==
  IF isModified(this.cells[i])
    THEN LET cleared == [this EXCEPT !.cells[i] = setModified(@, FALSE)]
             cellSeq == toString(cleared.cells[i])
         IN  IF cellSeq # this.lastFrame[i]
               THEN [this |-> [cleared EXCEPT
                                 !.cells[i] = setChar(@, <<" ">>),
                                 !.lastFrame = assign(@, i, cellSeq),
                                 !.stream = Append(@, cellSeq)],
                     wrote |-> TRUE]
               ELSE [this |-> cleared, wrote |-> FALSE]
    ELSE [this |-> this, wrote |-> FALSE]

\* flushCell without the comparison to the last frame: every dirty cell is
\* written.
flushCell_NoDiff(this, i) ==
  IF isModified(this.cells[i])
    THEN LET cleared == [this EXCEPT !.cells[i] = setModified(@, FALSE)]
             cellSeq == toString(cleared.cells[i])
         IN  [this |-> [cleared EXCEPT !.lastFrame = assign(@, i, cellSeq),
                                       !.stream = Append(@, cellSeq)],
              wrote |-> TRUE]
    ELSE [this |-> this, wrote |-> FALSE]

\* flushCell redrawing every cell, dirty or not, changed or not.
flushCell_Redraw(this, i) ==
  LET cellSeq == toString(this.cells[i])
  IN  [this |-> [this EXCEPT !.stream = Append(@, cellSeq)], wrote |-> TRUE]

\* flushCell that leaves the dirty flag set.
flushCell_KeepDirty(this, i) ==
  IF isModified(this.cells[i])
    THEN LET cellSeq == toString(this.cells[i])
         IN  IF cellSeq # this.lastFrame[i]
               THEN [this |-> [this EXCEPT !.lastFrame = assign(@, i, cellSeq),
                                           !.stream = Append(@, cellSeq)],
                     wrote |-> TRUE]
               ELSE [this |-> this, wrote |-> FALSE]
    ELSE [this |-> this, wrote |-> FALSE]

\* One iteration of the loop of flush, at index i; wrote tells whether it
\* issued a stream.write.
flushCell(this, i) ==
  IF isModified(this.cells[i])
    THEN LET cleared == [this EXCEPT !.cells[i] = setModified(@, FALSE)]
             cellSeq == toString(cleared.cells[i])
         IN  IF cellSeq # this.lastFrame[i]
               THEN [this |-> [cleared EXCEPT !.lastFrame = assign(@, i, cellSeq),
                                              !.stream = Append(@, cellSeq)],
                     wrote |-> TRUE]
               ELSE [this |-> cleared, wrote |-> FALSE]
    ELSE [this |-> this, wrote |-> FALSE]

\* flushLoop walking the grid from the last index down to the first.
RECURSIVE flushLoop_Backwards(_, _, _)
flushLoop_Backwards(this, i, log) ==
  IF ~(i < length(this.cells))
    THEN [this |-> this, log |-> log]
    ELSE LET j == length(this.cells) - 1 - i
             r == flushCell(this, j)
         IN  flushLoop_Backwards(r.this, i + 1,
                                 IF r.wrote THEN Append(log, j) ELSE log)

\* flushLoop collecting the strings of one flush into a single stream.write.
RECURSIVE flushLoop_Batched(_, _, _)
flushLoop_Batched(this, i, log) ==
  IF ~(i < length(this.cells))
    THEN [this |-> this, log |-> log]
    ELSE LET r == flushCell(this, i)
             n == Len(r.this.stream)
             joined ==
               IF r.wrote /\ log # <<>>
                 THEN [r.this EXCEPT !.stream =
                         Append(SubSeq(@, 1, n - 2), @[n - 1] \o @[n])]
                 ELSE r.this
         IN  flushLoop_Batched(joined, i + 1,
                               IF r.wrote THEN Append(log, i) ELSE log)

\* The loop of flush; log records, for each stream.write it issues, the loop
\* index i it was issued at.
RECURSIVE flushLoop(_, _, _)
flushLoop(this, i, log) ==
  IF ~(i < length(this.cells))
    THEN [this |-> this, log |-> log]
    ELSE LET r == flushCell(this, i)
         IN  flushLoop(r.this, i + 1, IF r.wrote THEN Append(log, i) ELSE log)

flush(this) == flushLoop(this, 0, <<>>).this

\* up that stops at the first row of the viewport.
up_Clamped(this, h) ==
  [this EXCEPT !.y = IF @ - floor(h) < 0 THEN 0 ELSE @ - floor(h)]

up(this, h) == [this EXCEPT !.y = @ - floor(h)]

down(this, h) == [this EXCEPT !.y = @ + floor(h)]

right(this, h) == [this EXCEPT !.x = @ + floor(h)]

left(this, h) == [this EXCEPT !.x = @ - floor(h)]

\* moveBy adding the floored offsets to the position itself.
moveBy_Direct(this, hx, hy) ==
  [this EXCEPT !.x = @ + floor(hx), !.y = @ + floor(hy)]

moveBy(this, hx, hy) ==
  LET s1 == IF hx < 0 THEN left(this, -hx) ELSE this
      s2 == IF hx > 0 THEN right(s1, hx) ELSE s1
      s3 == IF hy < 0 THEN up(s2, -hy) ELSE s2
      s4 == IF hy > 0 THEN down(s3, hy) ELSE s3
  IN  s4

moveTo(this, hx, hy) == [this EXCEPT !.x = floor(hx), !.y = floor(hy)]

foreground(this, color) == [this EXCEPT !.foreground = color]

background(this, color) == [this EXCEPT !.background = color]

\* bold that also restyles the cells already written.
bold_Repaint(this, isBold) ==
  [this EXCEPT !.display.bold = isBold,
               !.cells = [i \in DOMAIN @ |->
                            IF @[i].char # <<" ">>
                              THEN [@[i] EXCEPT !.display.bold = isBold]
                              ELSE @[i]]]

bold(this, isBold) == [this EXCEPT !.display.bold = isBold]

dim(this, isDim) == [this EXCEPT !.display.dim = isDim]

underlined(this, isUnderlined) == [this EXCEPT !.display.underlined = isUnderlined]

blink(this, isBlink) == [this EXCEPT !.display.blink = isBlink]

reverse(this, isReverse) == [this EXCEPT !.display.reverse = isReverse]

hidden(this, isHidden) == [this EXCEPT !.display.hidden = isHidden]

\* The body of the loops of erase, at (px, py); coordinates are integers.
\* eraseCell without the test that the grid has a cell at the pointer: a
\* blank cell is stored there.
eraseCell_Unguarded(this, px, py) ==
  LET pointer == getPointerFromXY(this, px, py)
  IN  [this EXCEPT !.cells = assign(@, pointer, Cell_reset(NewCell))]

\* eraseCell that forgets the last frame of the cell as well.
eraseCell_ClearsFrame(this, px, py) ==
  LET pointer == getPointerFromXY(this, px, py)
  IN  IF pointer \in DOMAIN this.cells
        THEN [this EXCEPT !.cells[pointer] = Cell_reset(@),
                          !.lastFrame[pointer] = <<>>]
        ELSE this

eraseCell(this, px, py) ==
  LET pointer == getPointerFromXY(this, px, py)
  IN  IF pointer \in DOMAIN this.cells
        THEN [this EXCEPT !.cells[pointer] = Cell_reset(@)]
        ELSE this

\* The inner loop of erase (x from px to x2, on row py).
RECURSIVE eraseRow(_, _, _, _)
eraseRow(this, px, py, x2) ==
  IF ~(px <= x2)
    THEN this
    ELSE eraseRow(eraseCell(this, px, py), px + 1, py, x2)

\* The outer loop of erase (y from py to y2).
RECURSIVE eraseRows(_, _, _, _, _)
eraseRows(this, x1, py, x2, y2) ==
  IF ~(py <= y2)
    THEN this
    ELSE eraseRows(eraseRow(this, x1, py, x2), x1, py + 1, x2, y2)

erase(this, x1, y1, x2, y2) == eraseRows(this, x1, y1, x2, y2)

eraseToEnd(this) == erase(this, this.x, this.y, this.width - 1, this.y)

eraseToStart(this) == erase(this, 0, this.y, this.x, this.y)

\* eraseToDown starting each row at the cursor's x instead of at 0.
eraseToDown_FromCursorX(this) ==
  erase(this, this.x, this.y, this.width - 1, this.height - 1)

eraseToDown(this) == erase(this, 0, this.y, this.width - 1, this.height - 1)

eraseToUp(this) == erase(this, 0, 0, this.width - 1, this.y)

eraseLine(this) == erase(this, 0, this.y, this.width - 1, this.y)

eraseScreen(this) == erase(this, 0, 0, this.width - 1, this.height - 1)

saveScreen(this) == [this EXCEPT !.stream = Append(@, <<encodeToVT100("[?47h")>>)]

restoreScreen(this) == [this EXCEPT !.stream = Append(@, <<encodeToVT100("[?47l")>>)]

\* hideCursor that flushes the pending cells before it sends its sequence.
hideCursor_FlushFirst(this) ==
  [flush(this) EXCEPT !.stream = Append(@, <<encodeToVT100("[?25l")>>)]

\* hideCursor sending the sequence that shows the cursor.
hideCursor_Show(this) == [this EXCEPT !.stream = Append(@, <<encodeToVT100("[?25h")>>)]

hideCursor(this) == [this EXCEPT !.stream = Append(@, <<encodeToVT100("[?25l")>>)]

showCursor(this) == [this EXCEPT !.stream = Append(@, <<encodeToVT100("[?25h")>>)]

reset(this) == [this EXCEPT !.stream = Append(@, <<encodeToVT100("c")>>)]

(***************************************************************************)
(* The calls a client makes.  budget is the number of calls the client     *)
(* still makes, last names the most recent call with its arguments and the *)
(* call before it, lastFlush is what the most recent flush saw (the        *)
(* indices dirty when it began) and did (the indices it wrote a string     *)
(* for, in the order of the writes).                                       *)
(***************************************************************************)
Indices == 0 .. (width * height - 1)

\* The text of n units A, B, A, B, ...
Text(n) == [k \in 1 .. n |-> IF k % 2 = 1 THEN "A" ELSE "B"]

Texts == {Text(n) : n \in 1 .. MaxText} \cup {<<"B">>}

\* Cursor coordinates a client moves to: one cell around the viewport, and a
\* fractional one (0.5).
MoveXs == {num(n) : n \in (-1) .. width} \cup {1}
MoveYs == {num(n) : n \in (-1) .. height} \cup {1}

\* Distances of the relative moves: 1.5 and 2 cells.
Steps == {3, 4}

\* The argument lists of a relative move: none (the default applies) or one
\* distance.
StepArgs == {<<>>} \cup {<<h>> : h \in Steps}

\* A parameter with a default value: the k-th argument, or the default when
\* the call has none.
param(args, k, default) == IF Len(args) >= k THEN args[k] ELSE default

\* Offsets of moveBy.
Offsets == {-3, -2, 0, 2, 3}

\* Rectangle corners of erase: one cell around the viewport.
EraseXs == (-1) .. width
EraseYs == (-1) .. height

ColorNames == {"none", "black", "YELLOW", "bogus"}

Fresh ==
  /\ cursor = NewCursor
  /\ cellObj = NewCell
  /\ last = [op |-> "new", args |-> <<>>, prev |-> "none"]
  /\ lastFlush = [dirty |-> {}, written |-> <<>>]

Init == Fresh /\ budget = MaxCalls

Call(op, args, next) ==
  /\ budget > 0
  /\ cursor' = next
  /\ budget' = budget - 1
  /\ last' = [op |-> op, args |-> args, prev |-> last.op]
  /\ UNCHANGED <<cellObj, lastFlush>>

Write == \E data \in Texts : Call("write", <<data>>, write(cursor, data))

Flush ==
  LET r == flushLoop(cursor, 0, <<>>)
  IN  /\ budget > 0
      /\ cursor' = r.this
      /\ budget' = budget - 1
      /\ last' = [op |-> "flush", args |-> <<>>, prev |-> last.op]
      /\ lastFlush' = [dirty |-> {i \in DOMAIN cursor.cells : isModified(cursor.cells[i])},
                       written |-> r.log]
      /\ UNCHANGED cellObj

Up == \E args \in StepArgs : Call("up", args, up(cursor, param(args, 1, num(1))))

Down == \E args \in StepArgs : Call("down", args, down(cursor, param(args, 1, num(1))))

Right == \E args \in StepArgs : Call("right", args, right(cursor, param(args, 1, num(1))))

Left == \E args \in StepArgs : Call("left", args, left(cursor, param(args, 1, num(1))))

MoveBy == \E hx \in Offsets, hy \in Offsets : Call("moveBy", <<hx, hy>>, moveBy(cursor, hx, hy))

MoveTo == \E hx \in MoveXs, hy \in MoveYs : Call("moveTo", <<hx, hy>>, moveTo(cursor, hx, hy))

Foreground == \E color \in ColorNames : Call("foreground", <<color>>, foreground(cursor, color))

Background == \E color \in ColorNames : Call("background", <<color>>, background(cursor, color))

Bold == \E b \in BOOLEAN : Call("bold", <<b>>, bold(cursor, b))

Dim == \E b \in BOOLEAN : Call("dim", <<b>>, dim(cursor, b))

Underlined == \E b \in BOOLEAN : Call("underlined", <<b>>, underlined(cursor, b))

Blink == \E b \in BOOLEAN : Call("blink", <<b>>, blink(cursor, b))

Reverse == \E b \in BOOLEAN : Call("reverse", <<b>>, reverse(cursor, b))

Hidden == \E b \in BOOLEAN : Call("hidden", <<b>>, hidden(cursor, b))

Erase ==
  \E x1 \in EraseXs, y1 \in EraseYs, x2 \in EraseXs, y2 \in EraseYs :
    Call("erase", <<x1, y1, x2, y2>>, erase(cursor, x1, y1, x2, y2))

\* erase(0, 0, width - 1, height - 1): the whole viewport.
EraseAll ==
  Call("erase", <<0, 0, width - 1, height - 1>>,
       erase(cursor, 0, 0, width - 1, height - 1))

EraseToEnd == Call("eraseToEnd", <<>>, eraseToEnd(cursor))

EraseToStart == Call("eraseToStart", <<>>, eraseToStart(cursor))

EraseToDown == Call("eraseToDown", <<>>, eraseToDown(cursor))

EraseToUp == Call("eraseToUp", <<>>, eraseToUp(cursor))

EraseLine == Call("eraseLine", <<>>, eraseLine(cursor))

EraseScreen == Call("eraseScreen", <<>>, eraseScreen(cursor))

SaveScreen == Call("saveScreen", <<>>, saveScreen(cursor))

RestoreScreen == Call("restoreScreen", <<>>, restoreScreen(cursor))

HideCursor == Call("hideCursor", <<>>, hideCursor(cursor))

ShowCursor == Call("showCursor", <<>>, showCursor(cursor))

Reset == Call("reset", <<>>, reset(cursor))

Next ==
  \/ Write \/ Flush
  \/ Up \/ Down \/ Right \/ Left \/ MoveBy \/ MoveTo
  \/ Foreground \/ Background
  \/ Bold \/ Dim \/ Underlined \/ Blink \/ Reverse \/ Hidden
  \/ Erase \/ EraseToEnd \/ EraseToStart \/ EraseToDown \/ EraseToUp
  \/ EraseLine \/ EraseScreen
  \/ SaveScreen \/ RestoreScreen \/ HideCursor \/ ShowCursor \/ Reset

Spec == Init /\ [][Next]_vars

(***************************************************************************)
(* The drawing specification: writes, flushes, relative moves, pen changes *)
(* and line erasures, for a longer run of calls.                           *)
(***************************************************************************)
MaxDraw == 5

InitDraw == Fresh /\ budget = MaxDraw

NextDraw ==
  \/ Write \/ Flush \/ Left \/ Down \/ Background \/ Bold
  \/ EraseLine \/ EraseToEnd

SpecDraw == InitDraw /\ [][NextDraw]_vars

(***************************************************************************)
(* A VT100 terminal of width x height positions, as far as the sequences   *)
(* of this program go: what it shows after receiving strings.              *)
(***************************************************************************)
Units == {" ", "A", "B"}

Blank ==
  [char |-> <<" ">>, background |-> "none", foreground |-> "none",
   display |-> NoDisplay]

\* What a grid cell says its position should show.
Visible(cell) ==
  [char |-> cell.char, background |-> cell.background,
   foreground |-> cell.foreground, display |-> cell.display]

PositionsOf(tok) ==
  {p \in (0 .. (width - 1)) \X (0 .. (height - 1)) :
     tok = ESC \o "[" \o ToString(p[2] + 1) \o ";" \o ToString(p[1] + 1) \o "f"}

BackgroundsOf(tok) ==
  {n \in DOMAIN COLORS : tok = ESC \o "[48;5;" \o ToString(COLORS[n]) \o "m"}

ForegroundsOf(tok) ==
  {n \in DOMAIN COLORS : tok = ESC \o "[38;5;" \o ToString(COLORS[n]) \o "m"}

TermInit ==
  [screen |-> [i \in Indices |-> Blank], at |-> <<0, 0>>,
   background |-> "none", foreground |-> "none", display |-> NoDisplay]

\* The terminal after one more token.
TermToken(t, tok) ==
  CASE PositionsOf(tok) # {} ->
         [t EXCEPT !.at = CHOOSE p \in PositionsOf(tok) : TRUE]
    [] BackgroundsOf(tok) # {} ->
         [t EXCEPT !.background = CHOOSE n \in BackgroundsOf(tok) : TRUE]
    [] ForegroundsOf(tok) # {} ->
         [t EXCEPT !.foreground = CHOOSE n \in ForegroundsOf(tok) : TRUE]
    [] tok = ESC \o "[1m" -> [t EXCEPT !.display.bold = TRUE]
    [] tok = ESC \o "[2m" -> [t EXCEPT !.display.dim = TRUE]
    [] tok = ESC \o "[4m" -> [t EXCEPT !.display.underlined = TRUE]
    [] tok = ESC \o "[5m" -> [t EXCEPT !.display.blink = TRUE]
    [] tok = ESC \o "[7m" -> [t EXCEPT !.display.reverse = TRUE]
    [] tok = ESC \o "[8m" -> [t EXCEPT !.display.hidden = TRUE]
    [] tok = ESC \o "[0m" ->
         [t EXCEPT !.background = "none", !.foreground = "none",
                   !.display = NoDisplay]
    [] tok \in Units ->
         IF t.at[1] < width /\ t.at[2] < height
           THEN [t EXCEPT !.screen[t.at[2] * width + t.at[1]] =
                            [char |-> <<tok>>, background |-> t.background,
                             foreground |-> t.foreground, display |-> t.display],
                          !.at = <<t.at[1] + 1, t.at[2]>>]
           ELSE t
    [] OTHER -> t

RECURSIVE TermString(_, _, _)
TermString(t, str, k) ==
  IF k > Len(str) THEN t ELSE TermString(TermToken(t, str[k]), str, k + 1)

\* The strings flush writes begin with a position; the immediate sequences
\* do not.
IsCellString(str) == Len(str) > 0 /\ PositionsOf(str[1]) # {}

RECURSIVE TermReplay(_, _, _)
TermReplay(t, stream, k) ==
  IF k > Len(stream)
    THEN t
    ELSE TermReplay(
           IF IsCellString(stream[k]) THEN TermString(t, stream[k], 1) ELSE t,
           stream, k + 1)

Shown == TermReplay(TermInit, cursor.stream, 1).screen

(***************************************************************************)
(* C1: once a run of drawing calls ends with a flush, replaying what the   *)
(* flushes wrote onto a blank terminal shows, at every position (x, y),    *)
(* the character, colours and style flags of the grid cell at index        *)
(* y*width + x.                                                            *)
(***************************************************************************)
C1_TerminalShowsGrid ==
  last.op = "flush" => \A i \in Indices : Shown[i] = Visible(cursor.cells[i])

(***************************************************************************)
(* Steps of a behaviour, by the call that makes them.                      *)
(***************************************************************************)
Called(op) == budget' = budget - 1 /\ last'.op = op

Range(seq) == {seq[k] : k \in 1 .. Len(seq)}

(***************************************************************************)
(* C2: during one flush a cell's rendered string is written to the stream  *)
(* if and only if the cell was dirty when the flush began and its rendered *)
(* string differs from the last-frame entry at its index; nothing is       *)
(* written for a clean cell and at most one string per cell.               *)
(***************************************************************************)
C2_FlushWritesDirtyAndChanged ==
  [][Called("flush") =>
       LET W == {i \in Indices :
                   /\ isModified(cursor.cells[i])
                   /\ toString(cursor.cells[i]) # cursor.lastFrame[i]}
           log == lastFlush'.written
           old == Len(cursor.stream)
       IN  /\ Range(log) = W
           /\ Len(log) = Cardinality(W)
           /\ Len(cursor'.stream) = old + Len(log)
           /\ SubSeq(cursor'.stream, 1, old) = cursor.stream
           /\ \A k \in 1 .. Len(log) :
                cursor'.stream[old + k] = toString(cursor.cells[log[k]])]_vars

\* A flush has just written one dirty cell and passed over another dirty cell
\* whose rendering was already in the last frame, and over a clean one.
C2_Witness ==
  /\ last.op = "flush"
  /\ Range(lastFlush.written) # {}
  /\ lastFlush.dirty \ Range(lastFlush.written) # {}
  /\ Indices \ lastFlush.dirty # {}

(***************************************************************************)
(* C3: two flushes in a row: the second writes nothing to the stream and   *)
(* leaves grid, dirty flags and last frame as they are.                    *)
(***************************************************************************)
C3_SecondFlushIsNoOp ==
  [][(last.op = "flush" /\ Called("flush")) =>
       /\ cursor'.stream = cursor.stream
       /\ cursor'.cells = cursor.cells
       /\ cursor'.lastFrame = cursor.lastFrame
       /\ lastFlush'.written = <<>>]_vars

\* The second of two flushes in a row, the first of which had output.
C3_Witness ==
  /\ last.op = "flush"
  /\ last.prev = "flush"
  /\ Len(cursor.stream) > 0
  /\ lastFlush.written = <<>>

(***************************************************************************)
(* C5: after flush no cell is dirty, the last-frame entry of every cell    *)
(* that was dirty equals that cell's rendered string, and the last-frame   *)
(* entry of every cell that was clean is unchanged.                        *)
(***************************************************************************)
C5_FlushPostcondition ==
  [][Called("flush") =>
       \A i \in Indices :
         /\ ~isModified(cursor'.cells[i])
         /\ isModified(cursor.cells[i]) =>
              cursor'.lastFrame[i] = toString(cursor'.cells[i])
         /\ ~isModified(cursor.cells[i]) =>
              cursor'.lastFrame[i] = cursor.lastFrame[i]]_vars

\* A flush that found dirty and clean cells, among the clean ones a cell with
\* a last-frame entry.
C5_Witness ==
  /\ last.op = "flush"
  /\ lastFlush.dirty # {}
  /\ \E i \in Indices \ lastFlush.dirty : cursor.lastFrame[i] # <<>>
  /\ \A i \in lastFlush.dirty : cursor.lastFrame[i] = toString(cursor.cells[i])

(***************************************************************************)
(* C6: the strings one flush writes are those of strictly increasing grid  *)
(* indices, and the stream holds them in that order.                       *)
(***************************************************************************)
C6_FlushInIndexOrder ==
  [][Called("flush") =>
       LET log == lastFlush'.written
           old == Len(cursor.stream)
       IN  /\ \A j, k \in 1 .. Len(log) : j < k => log[j] < log[k]
           /\ Len(cursor'.stream) = old + Len(log)
           /\ \A k \in 1 .. Len(log) :
                cursor'.stream[old + k] = cursor'.lastFrame[log[k]]]_vars

\* A flush that wrote the strings of at least two cells with different
\* strings.
C6_Witness ==
  /\ last.op = "flush"
  /\ Len(lastFlush.written) >= 2
  /\ cursor.lastFrame[lastFlush.written[1]] # cursor.lastFrame[lastFlush.written[2]]

(***************************************************************************)
(* C4: a redundant re-render is free.  When a write puts into a flushed    *)
(* cell (clean, last frame equal to its rendering) the character, position *)
(* and pen state it already holds, the cell becomes dirty again and the    *)
(* next flush writes nothing for it.                                       *)
(***************************************************************************)
C4_RedundantWriteIsFree ==
  [][/\ Called("write") =>
          \A i \in Indices :
            (/\ ~isModified(cursor.cells[i])
             /\ cursor.lastFrame[i] = toString(cursor.cells[i])
             /\ cursor'.cells[i] = setModified(cursor.cells[i], TRUE))
            => LET r == flushLoop(cursor', 0, <<>>)
               IN  /\ i \notin Range(r.log)
                   /\ r.this.lastFrame[i] = cursor.lastFrame[i]
     /\ (last.op = "write" /\ Called("flush")) =>
          \A i \in Indices :
            (isModified(cursor.cells[i])
               /\ cursor.lastFrame[i] = toString(cursor.cells[i]))
            => (i \notin Range(lastFlush'.written)
                  /\ cursor'.lastFrame[i] = cursor.lastFrame[i])]_vars

\* A flush right after a write has passed over a dirty cell holding a written
\* character, because its rendering was already the last frame's.
C4_Witness ==
  /\ last.op = "flush"
  /\ last.prev = "write"
  /\ \E i \in lastFlush.dirty \ Range(lastFlush.written) :
       cursor.lastFrame[i] # <<>> /\ cursor.cells[i].char # <<" ">>

(***************************************************************************)
(* Positions of the viewport, and the colour a name stands for: the name   *)
(* in upper case if the colour table has it, otherwise none.               *)
(***************************************************************************)
InViewport(px, py) == 0 <= px /\ px < width /\ 0 <= py /\ py < height

NormalizeColor(name) ==
  IF toUpperCase(name) \in DOMAIN COLORS THEN toUpperCase(name) ELSE "none"

(***************************************************************************)
(* C7: write(text) with the cursor at (x, y): for each k, if (x+k, y) is   *)
(* in the viewport, the cell at index y*width + x+k receives the k-th      *)
(* character, the coordinates (x+k, y), the pen's colours and style flags, *)
(* and is dirty, whatever happened to the characters before it; afterwards *)
(* the cursor is at (x + length(text), y).                                 *)
(***************************************************************************)
C7_WritePostcondition ==
  [][Called("write") =>
       LET data == last'.args[1]
       IN  /\ cursor'.x = cursor.x + Len(data)
           /\ cursor'.y = cursor.y
           /\ \A k \in 0 .. (Len(data) - 1) :
                InViewport(cursor.x + k, cursor.y) =>
                  LET cell == cursor'.cells[cursor.y * width + cursor.x + k]
                  IN  /\ cell.char = <<data[k + 1]>>
                      /\ cell.x = cursor.x + k
                      /\ cell.y = cursor.y
                      /\ cell.background = NormalizeColor(cursor.background)
                      /\ cell.foreground = NormalizeColor(cursor.foreground)
                      /\ cell.display = cursor.display
                      /\ isModified(cell)]_vars

(***************************************************************************)
(* C8: writing never wraps.  A character that lands outside the viewport   *)
(* changes no cell: a write changes only the cells at the viewport         *)
(* positions its characters land on, and when none lands in the viewport   *)
(* the grid and the output of the next flush are as without the write;     *)
(* the cursor advances by one per character all the same.                  *)
(***************************************************************************)
C8_WriteNeverWraps ==
  [][Called("write") =>
       LET data == last'.args[1]
           landed == {cursor.y * width + cursor.x + k :
                        k \in {j \in 0 .. (Len(data) - 1) :
                                 InViewport(cursor.x + j, cursor.y)}}
       IN  /\ \A i \in Indices \ landed : cursor'.cells[i] = cursor.cells[i]
           /\ cursor'.x = cursor.x + Len(data)
           /\ landed = {} =>
                /\ cursor'.cells = cursor.cells
                /\ flush(cursor').stream = flush(cursor).stream]_vars

\* A write has just happened wholly at x >= width, on a row that has a row
\* below it, with something on the screen to overwrite.
C8_Witness ==
  /\ last.op = "write"
  /\ cursor.x - Len(last.args[1]) >= width
  /\ 0 <= cursor.y /\ cursor.y < height - 1
  /\ \E i \in Indices : cursor.cells[i].char # <<" ">>
  /\ \E i \in Indices : ~isModified(cursor.cells[i])

(***************************************************************************)
(* The erasing specification: the cursor anywhere around the viewport,     *)
(* writes, and erasures of rectangles and of parts of the current line.    *)
(***************************************************************************)
MaxErase == 2

InitErase == Fresh /\ budget = MaxErase

NextErase ==
  \/ Write \/ MoveTo \/ Erase \/ EraseToEnd \/ EraseToStart \/ EraseLine

SpecErase == InitErase /\ [][NextErase]_vars

\* The grid position of index i.
XOf(i) == i % width
YOf(i) == i \div width

\* The step resets exactly the cells with index in R.
ResetsExactly(R) ==
  \A i \in Indices :
    cursor'.cells[i] =
      IF i \in R THEN Cell_reset(cursor.cells[i]) ELSE cursor.cells[i]

(***************************************************************************)
(* C9: erase(x1, y1, x2, y2), for any integers, resets exactly the cells   *)
(* at the grid positions (x, y) of the viewport with x1 <= x <= x2 and     *)
(* y1 <= y <= y2; every other cell keeps its content and dirty flag.       *)
(***************************************************************************)
C9_EraseResetsRectangle ==
  [][Called("erase") =>
       LET a == last'.args
       IN  ResetsExactly({i \in Indices :
                            /\ a[1] <= XOf(i) /\ XOf(i) <= a[3]
                            /\ a[2] <= YOf(i) /\ YOf(i) <= a[4]})]_vars

(***************************************************************************)
(* C10: for any cursor position, eraseToEnd resets the cells of the        *)
(* cursor's row from the cursor's x to the end of the line, eraseToStart   *)
(* those from the start of the line to the cursor's x, eraseLine the whole *)
(* row; no cell of any other row changes.                                  *)
(***************************************************************************)
C10_LineErasuresStayOnLine ==
  [][/\ Called("eraseToEnd") =>
          ResetsExactly({i \in Indices : YOf(i) = cursor.y /\ XOf(i) >= cursor.x})
     /\ Called("eraseToStart") =>
          ResetsExactly({i \in Indices : YOf(i) = cursor.y /\ XOf(i) <= cursor.x})
     /\ Called("eraseLine") =>
          ResetsExactly({i \in Indices : YOf(i) = cursor.y})]_vars

(***************************************************************************)
(* The positioning specification: the cursor is moved anywhere around the  *)
(* viewport, text is written and flushed, the screen or the rows below or  *)
(* above the cursor are erased.                                            *)
(***************************************************************************)
MaxMove == 3

InitMove == Fresh /\ budget = MaxMove

NextMove ==
  \/ MoveTo \/ Write \/ Flush \/ EraseScreen \/ EraseToDown \/ EraseToUp

SpecMove == InitMove /\ [][NextMove]_vars

(***************************************************************************)
(* C11: for any cursor position eraseScreen resets all width*height cells, *)
(* eraseToDown exactly the cells of the rows cursor y .. height-1 and      *)
(* eraseToUp exactly the cells of the rows 0 .. cursor y, whatever the     *)
(* cursor's x; rows outside the viewport contribute nothing.               *)
(***************************************************************************)
C11_RegionErasures ==
  [][/\ Called("eraseScreen") => ResetsExactly(Indices)
     /\ Called("eraseToDown") =>
          ResetsExactly({i \in Indices : YOf(i) >= cursor.y})
     /\ Called("eraseToUp") =>
          ResetsExactly({i \in Indices : YOf(i) <= cursor.y})]_vars

\* eraseToDown or eraseToUp has just run with the cursor's x outside the
\* viewport and has left a written cell of another row as it was.
C11_Witness ==
  /\ last.op \in {"eraseToDown", "eraseToUp"}
  /\ ~(0 <= cursor.x /\ cursor.x < width)
  /\ 0 <= cursor.y /\ cursor.y < height
  /\ \E i \in Indices : cursor.cells[i].char # <<" ">>
  /\ \E i \in Indices : cursor.cells[i] = Cell_reset(cursor.cells[i])

(***************************************************************************)
(* C13: on a fresh screen with the default pen, moveTo(x, y), write(text), *)
(* flush() with all characters in the viewport writes to the stream, for   *)
(* each character in text order, the position row y+1, column x+k+1, the   *)
(* character, reset-all, and nothing else.                                 *)
(***************************************************************************)
C13_MoveWriteFlush ==
  [][(/\ Called("flush")
      /\ budget = MaxMove - 2
      /\ last.op = "write"
      /\ last.prev = "moveTo") =>
       LET data == last.args[1]
           x0 == cursor.x - Len(data)
           y0 == cursor.y
       IN  (InViewport(x0, y0) /\ InViewport(x0 + Len(data) - 1, y0)) =>
             cursor'.stream =
               [k \in 1 .. Len(data) |->
                  <<ESC \o "[" \o ToString(y0 + 1) \o ";" \o ToString(x0 + k) \o "f",
                    data[k],
                    ESC \o "[0m">>]]_vars

\* moveTo, write, flush on a fresh screen has just written two characters on
\* the second row.
C13_Witness ==
  /\ last.op = "flush"
  /\ last.prev = "write"
  /\ budget = MaxMove - 3
  /\ cursor.y = 1
  /\ Len(cursor.stream) >= 2
  /\ cursor.stream[1] = <<ESC \o "[2;1f", "A", ESC \o "[0m">>
  /\ cursor.stream[2] = <<ESC \o "[2;2f", "B", ESC \o "[0m">>

(***************************************************************************)
(* C15: coordinate round trip.  getPointerFromXY(x, y) = y*width + x and   *)
(* getXYFromPointer(i) = (i mod width, i div width); for every position    *)
(* of the viewport getXYFromPointer(getPointerFromXY(x, y)) = (x, y), and  *)
(* for every index of the grid getPointerFromXY(getXYFromPointer(i)) = i.  *)
(* Without arguments getPointerFromXY takes the cursor's position.         *)
(***************************************************************************)
C15_CoordinateRoundTrip ==
  /\ \A px \in 0 .. (width - 1), py \in 0 .. (height - 1) :
       /\ getPointerFromXY(cursor, px, py) = py * width + px
       /\ getXYFromPointer(cursor, getPointerFromXY(cursor, px, py)) = <<px, py>>
  /\ \A i \in Indices :
       LET p == getXYFromPointer(cursor, i)
       IN  /\ p = <<i % width, i \div width>>
           /\ getPointerFromXY(cursor, p[1], p[2]) = i
  /\ InViewport(cursor.x, cursor.y) =>
       getXYFromPointer(cursor, getPointerFromXY(cursor, cursor.x, cursor.y))
         = <<cursor.x, cursor.y>>

\* The cursor stands in the viewport at a position with x different from y,
\* next to a cell a write has just filled through getPointerFromXY.
C15_Witness ==
  /\ last.op = "write"
  /\ cursor.x = 1 /\ cursor.y = 1
  /\ cursor.cells[cursor.y * width + cursor.x - 1].char = <<"B">>
  /\ cursor.cells[cursor.y * width + cursor.x - 1].x = 0
  /\ cursor.cells[cursor.y * width + cursor.x - 1].y = 1

(***************************************************************************)
(* The blanking specification: text is written and flushed, the whole      *)
(* viewport is erased and flushed, any number of times.                    *)
(***************************************************************************)
MaxBlank == 6

InitBlank == Fresh /\ budget = MaxBlank

NextBlank == Write \/ Flush \/ EraseAll

SpecBlank == InitBlank /\ [][NextBlank]_vars

(***************************************************************************)
(* C12: erase(0, 0, width-1, height-1) followed by flush writes, for each  *)
(* cell that was written non-blank and flushed (its shadow is a non-blank  *)
(* rendering), exactly one blank sequence addressed to the cell's own      *)
(* position (position, space, reset-all), and writes nothing for a cell    *)
(* whose shadow already equals its blank rendering.                        *)
(***************************************************************************)
C12_EraseThenFlushBlanks ==
  [][(/\ Called("flush")
      /\ last.op = "erase"
      /\ last.args = <<0, 0, width - 1, height - 1>>) =>
       \A i \in Indices :
         LET f == cursor.lastFrame[i]
             blank == <<ESC \o "[" \o ToString(YOf(i) + 1) \o ";"
                            \o ToString(XOf(i) + 1) \o "f",
                        " ",
                        ESC \o "[0m">>
             at == {k \in 1 .. Len(lastFlush'.written) : lastFlush'.written[k] = i}
         IN  /\ (Len(f) >= 3 /\ f[Len(f) - 1] # " ") =>
                  /\ Cardinality(at) = 1
                  /\ \A k \in at : cursor'.stream[Len(cursor.stream) + k] = blank
                  /\ cursor'.lastFrame[i] = blank
             /\ f = toString(cursor.cells[i]) => at = {}]_vars

\* The flush after the erasure has blanked the two cells that showed "AB" and
\* has written nothing for the two cells whose shadow was blank already.
C12_Witness ==
  /\ last.op = "flush"
  /\ last.prev = "erase"
  /\ lastFlush.dirty = Indices
  /\ lastFlush.written = <<0, 1>>
  /\ cursor.lastFrame[1] = <<ESC \o "[1;2f", " ", ESC \o "[0m">>
  /\ cursor.stream[Len(cursor.stream)] = cursor.lastFrame[1]
  /\ cursor.stream[Len(cursor.stream) - 2] = <<ESC \o "[1;2f", "B", ESC \o "[0m">>
  /\ Len(cursor.lastFrame[width]) = 3

(***************************************************************************)
(* The rendering specification: the client has set the pen to any of its   *)
(* states with the pen setters, then writes and flushes.                   *)
(***************************************************************************)
MaxCell == 2

InitCell ==
  /\ \E fg \in ColorNames, bg \in ColorNames :
       \E bo \in BOOLEAN, di \in BOOLEAN, un \in BOOLEAN,
          bl \in BOOLEAN, re \in BOOLEAN, hi \in BOOLEAN :
         cursor =
           hidden(reverse(blink(underlined(dim(bold(
             background(foreground(NewCursor, fg), bg), bo), di), un), bl), re), hi)
  /\ cellObj = NewCell
  /\ last = [op |-> "new", args |-> <<>>, prev |-> "none"]
  /\ lastFlush = [dirty |-> {}, written |-> <<>>]
  /\ budget = MaxCell

NextCell == Write \/ Flush

SpecCell == InitCell /\ [][NextCell]_vars

\* The rendering the wire format prescribes for a cell, put together from the
\* cell's fields alone: the candidate codes in their fixed order, of which
\* those that apply are kept.
ExpectedRender(cell) ==
  LET code(on, text) == [on |-> on, text |-> ESC \o text]
      colour(name) == IF name = "none" THEN "" ELSE ToString(COLORS[name])
      candidates ==
        <<code(cell.background # "none", "[48;5;" \o colour(cell.background) \o "m"),
          code(cell.foreground # "none", "[38;5;" \o colour(cell.foreground) \o "m"),
          code(cell.display.bold, "[1m"),
          code(cell.display.dim, "[2m"),
          code(cell.display.underlined, "[4m"),
          code(cell.display.blink, "[5m"),
          code(cell.display.reverse, "[7m"),
          code(cell.display.hidden, "[8m")>>
      applied == SelectSeq(candidates, LAMBDA c : c.on)
  IN  <<ESC \o "[" \o ToString(cell.y + 1) \o ";" \o ToString(cell.x + 1) \o "f">>
      \o [k \in 1 .. Len(applied) |-> applied[k].text]
      \o cell.char
      \o <<ESC \o "[0m">>

(***************************************************************************)
(* C14: a cell renders as the absolute position (row y+1, column x+1), the *)
(* background code only if the background is not none, the foreground code *)
(* only if the foreground is not none, one code per true style flag in the *)
(* order bold, dim, underlined, blink, reverse, hidden, the character and  *)
(* reset-all; the rendering is a function of the cell's own fields, and it *)
(* is what flush puts into the stream and the shadow.                      *)
(***************************************************************************)
C14_CellRendering ==
  \A i \in Indices :
    /\ toString(cursor.cells[i]) = ExpectedRender(cursor.cells[i])
    /\ (last.op = "flush" /\ \E k \in 1 .. Len(lastFlush.written) : lastFlush.written[k] = i) =>
         /\ cursor.lastFrame[i] = ExpectedRender(cursor.cells[i])
         /\ \E k \in 1 .. Len(cursor.stream) :
              cursor.stream[k] = ExpectedRender(cursor.cells[i])

\* A flush has rendered the cell at column 1 of row 0, which has both colours
\* and the flags bold, underlined and hidden, but not dim, blink and reverse.
C14_Witness ==
  /\ last.op = "flush"
  /\ cursor.cells[1].x = 1 /\ cursor.cells[1].y = 0
  /\ cursor.stream[2] =
       <<ESC \o "[1;2f", ESC \o "[48;5;11m", ESC \o "[38;5;11m",
         ESC \o "[1m", ESC \o "[4m", ESC \o "[8m", "B", ESC \o "[0m">>
  /\ cursor.lastFrame[1] = cursor.stream[2]

(***************************************************************************)
(* The frame specification: after a prelude of writes, flushes, pen        *)
(* changes and moves down, the client makes any one call of the API.       *)
(***************************************************************************)
MaxFrame == 3

InitFrame == Fresh /\ budget = MaxFrame

Prelude == Write \/ Flush \/ Down \/ Background \/ Bold

NextFrame ==
  \/ budget > 1 /\ Prelude
  \/ budget = 1 /\ Next

SpecFrame == InitFrame /\ [][NextFrame]_vars

(***************************************************************************)
(* C16: in every reachable state the grid and the shadow have exactly      *)
(* width*height entries, those of the indices 0 .. width*height-1: no      *)
(* operation adds or removes a cell or a shadow entry.                     *)
(***************************************************************************)
C16_GridAndShadowSize ==
  /\ length(cursor.cells) = width * height
  /\ length(cursor.lastFrame) = width * height
  /\ DOMAIN cursor.cells = Indices
  /\ DOMAIN cursor.lastFrame = Indices

\* An erase whose rectangle reaches beyond the last column and the last row
\* has just reset the last cell of the grid.
C16_Witness ==
  /\ last.op = "erase"
  /\ last.args[3] >= width
  /\ last.args[4] >= height
  /\ isModified(cursor.cells[width * height - 1])
  /\ \E i \in Indices : cursor.cells[i].char # <<" ">>

(***************************************************************************)
(* C17: only flush changes the shadow; every other operation leaves every  *)
(* shadow entry as it was.                                                 *)
(***************************************************************************)
C17_OnlyFlushChangesShadow ==
  [][cursor'.lastFrame # cursor.lastFrame => Called("flush")]_vars

\* An erase has blanked a cell whose shadow still holds the flushed "A".
C17_Witness ==
  /\ last.op = "erase"
  /\ last.prev = "flush"
  /\ cursor.cells[0].char = <<" ">>
  /\ isModified(cursor.cells[0])
  /\ cursor.lastFrame[0] = <<ESC \o "[1;1f", "A", ESC \o "[0m">>

(***************************************************************************)
(* C18: drawing operations perform no I/O: the stream is changed only by   *)
(* flush and by saveScreen, restoreScreen, hideCursor, showCursor and      *)
(* reset, and these only append to it.                                     *)
(***************************************************************************)
C18_DrawingIsSilent ==
  [][/\ cursor'.stream # cursor.stream =>
          \E op \in {"flush", "saveScreen", "restoreScreen",
                     "hideCursor", "showCursor", "reset"} : Called(op)
     /\ Len(cursor'.stream) >= Len(cursor.stream)
     /\ SubSeq(cursor'.stream, 1, Len(cursor.stream)) = cursor.stream]_vars

\* A write after a flush has changed a cell and left the stream with the one
\* string of the flush.
C18_Witness ==
  /\ last.op = "write"
  /\ last.prev = "flush"
  /\ Len(cursor.stream) = 1
  /\ \E i \in Indices : isModified(cursor.cells[i])

(***************************************************************************)
(* C19: the pen (background, foreground and the six style flags) is        *)
(* changed only by its own setters, each changing its own field; write,    *)
(* the moves, the erasures, flush and the immediate operations leave it    *)
(* unchanged, and a write gives every cell it changes the flags of the     *)
(* pen, wherever the cursor stands.  (How a colour name of the pen is      *)
(* stored in a cell is the subject of C7.)                                 *)
(***************************************************************************)
C19_PenChangedOnlyBySetters ==
  [][/\ cursor'.background # cursor.background => Called("background")
     /\ cursor'.foreground # cursor.foreground => Called("foreground")
     /\ cursor'.display.bold # cursor.display.bold => Called("bold")
     /\ cursor'.display.dim # cursor.display.dim => Called("dim")
     /\ cursor'.display.underlined # cursor.display.underlined => Called("underlined")
     /\ cursor'.display.blink # cursor.display.blink => Called("blink")
     /\ cursor'.display.reverse # cursor.display.reverse => Called("reverse")
     /\ cursor'.display.hidden # cursor.display.hidden => Called("hidden")
     /\ Called("write") =>
          \A i \in Indices :
            cursor'.cells[i] # cursor.cells[i] =>
              cursor'.cells[i].display = cursor.display]_vars

\* The pen was made yellow, the cursor moved down, and the write that followed
\* has drawn a yellow cell on the second row; the pen is still yellow.
C19_Witness ==
  /\ last.op = "write"
  /\ last.prev = "down"
  /\ cursor.background = "YELLOW"
  /\ cursor.cells[width].background = "YELLOW"
  /\ cursor.cells[width].char = <<"A">>

\* The whole number of cells in a distance given in halves.
Whole(h) ==
  CHOOSE m \in (-(width + height + 2)) .. (width + height + 2) :
    2 * m <= h /\ h < 2 * m + 2

\* A move leaves the grid with its dirty flags, the shadow, the pen and the
\* stream as they were.
MoveFrame ==
  /\ cursor'.cells = cursor.cells
  /\ cursor'.lastFrame = cursor.lastFrame
  /\ cursor'.stream = cursor.stream
  /\ cursor'.background = cursor.background
  /\ cursor'.foreground = cursor.foreground
  /\ cursor'.display = cursor.display

\* C20 as stated: up(n), down(n), left(n), right(n) change the cursor's y or
\* x by exactly n (default 1), moveTo(x, y) sets the cursor to exactly (x, y),
\* and none of them changes anything else.  Distances are in halves.
C20_MovesByExactlyN ==
  [][/\ Called("up") =>
          /\ 2 * cursor'.y = 2 * cursor.y - param(last'.args, 1, num(1))
          /\ cursor'.x = cursor.x /\ MoveFrame
     /\ Called("down") =>
          /\ 2 * cursor'.y = 2 * cursor.y + param(last'.args, 1, num(1))
          /\ cursor'.x = cursor.x /\ MoveFrame
     /\ Called("left") =>
          /\ 2 * cursor'.x = 2 * cursor.x - param(last'.args, 1, num(1))
          /\ cursor'.y = cursor.y /\ MoveFrame
     /\ Called("right") =>
          /\ 2 * cursor'.x = 2 * cursor.x + param(last'.args, 1, num(1))
          /\ cursor'.y = cursor.y /\ MoveFrame
     /\ Called("moveTo") =>
          /\ 2 * cursor'.x = last'.args[1]
          /\ 2 * cursor'.y = last'.args[2]
          /\ MoveFrame]_vars

(***************************************************************************)
(* C20 (amended): up(n), down(n), left(n), right(n) change the cursor's y  *)
(* or x by exactly floor(n) (default 1) with no clamping, so the cursor    *)
(* can hold negative coordinates or coordinates >= width/height;           *)
(* moveTo(x, y) sets the cursor to exactly (floor(x), floor(y)); none of   *)
(* these changes the grid, dirty flags, shadow, pen or stream.             *)
(***************************************************************************)
C20_MovesByFloorN ==
  [][/\ Called("up") =>
          /\ cursor'.y = cursor.y - Whole(param(last'.args, 1, num(1)))
          /\ cursor'.x = cursor.x /\ MoveFrame
     /\ Called("down") =>
          /\ cursor'.y = cursor.y + Whole(param(last'.args, 1, num(1)))
          /\ cursor'.x = cursor.x /\ MoveFrame
     /\ Called("left") =>
          /\ cursor'.x = cursor.x - Whole(param(last'.args, 1, num(1)))
          /\ cursor'.y = cursor.y /\ MoveFrame
     /\ Called("right") =>
          /\ cursor'.x = cursor.x + Whole(param(last'.args, 1, num(1)))
          /\ cursor'.y = cursor.y /\ MoveFrame
     /\ Called("moveTo") =>
          /\ cursor'.x = Whole(last'.args[1])
          /\ cursor'.y = Whole(last'.args[2])
          /\ MoveFrame]_vars

\* up(1.5) from the first row, after a write and a flush, has put the cursor
\* on row -1.
C20_Witness ==
  /\ last.op = "up"
  /\ last.args = <<3>>
  /\ cursor.y = -1
  /\ Len(cursor.stream) >= 1
  /\ cursor.cells[0].char = <<"A">>

(***************************************************************************)
(* The Cell specification: a client makes a cell with new Cell() and calls *)
(* its mutators, with and without arguments.                               *)
(***************************************************************************)
MaxCellOps == 2

CellCall(op, args, next) ==
  /\ budget > 0
  /\ cellObj' = next
  /\ budget' = budget - 1
  /\ last' = [op |-> op, args |-> args, prev |-> last.op]
  /\ UNCHANGED <<cursor, lastFlush>>

\* The argument lists of setChar: none, the empty string, the texts.
CharArgs == {<<>>, <<<<>>>>} \cup {<<data>> : data \in Texts}

\* The argument lists of setX and setY: none, or a coordinate.
CoordArgs == {<<>>} \cup {<<h>> : h \in MoveXs \cup MoveYs}

\* The argument lists of setBackground and setForeground: none, or a name.
ColorArgs == {<<>>} \cup {<<name>> : name \in ColorNames}

\* Some argument lists of setDisplay: none, the first flags only, all six.
DisplayArgs ==
  {<<>>, <<TRUE>>, <<FALSE, TRUE, TRUE>>,
   <<TRUE, FALSE, TRUE, FALSE, TRUE, FALSE>>,
   <<TRUE, TRUE, TRUE, TRUE, TRUE, TRUE>>}

\* The argument lists of setModified: none, or the flag.
FlagArgs == {<<>>} \cup {<<b>> : b \in BOOLEAN}

SetChar ==
  \E args \in CharArgs :
    CellCall("setChar", args, setChar(cellObj, param(args, 1, <<" ">>)))

SetX ==
  \E args \in CoordArgs :
    CellCall("setX", args, setX(cellObj, param(args, 1, num(0))))

SetY ==
  \E args \in CoordArgs :
    CellCall("setY", args, setY(cellObj, param(args, 1, num(0))))

SetBackground ==
  \E args \in ColorArgs :
    CellCall("setBackground", args, setBackground(cellObj, param(args, 1, "none")))

SetForeground ==
  \E args \in ColorArgs :
    CellCall("setForeground", args, setForeground(cellObj, param(args, 1, "none")))

SetDisplay ==
  \E args \in DisplayArgs :
    CellCall("setDisplay", args,
             setDisplay(cellObj, param(args, 1, FALSE), param(args, 2, FALSE),
                        param(args, 3, FALSE), param(args, 4, FALSE),
                        param(args, 5, FALSE), param(args, 6, FALSE)))

SetModified ==
  \E args \in FlagArgs :
    CellCall("setModified", args, setModified(cellObj, param(args, 1, TRUE)))

CellReset == CellCall("reset", <<>>, Cell_reset(cellObj))

InitCellOps == Fresh /\ budget = MaxCellOps

NextCellOps ==
  \/ SetChar \/ SetX \/ SetY \/ SetBackground \/ SetForeground
  \/ SetDisplay \/ SetModified \/ CellReset

SpecCellOps == InitCellOps /\ [][NextCellOps]_vars

\* The tokens of a rendering that set the background, the foreground.
BackgroundCodes(str) ==
  {k \in 1 .. Len(str) : \E n \in 0 .. 255 : str[k] = ESC \o "[48;5;" \o ToString(n) \o "m"}

ForegroundCodes(str) ==
  {k \in 1 .. Len(str) : \E n \in 0 .. 255 : str[k] = ESC \o "[38;5;" \o ToString(n) \o "m"}

\* C23: colour normalisation.  setBackground / setForeground upper-case the
\* name and store the upper-case name if it is an entry of the colour table,
\* for every entry, BLACK (code 0) included, and none otherwise (also when the
\* name is omitted); the cell renders one colour code for a channel that is
\* not none and no colour code for a channel that is none.
C23_ColourNormalisation ==
  /\ last.op = "setBackground" =>
       cellObj.background = NormalizeColor(param(last.args, 1, "none"))
  /\ last.op = "setForeground" =>
       cellObj.foreground = NormalizeColor(param(last.args, 1, "none"))
  /\ Cardinality(BackgroundCodes(toString(cellObj))) =
       IF cellObj.background = "none" THEN 0 ELSE 1
  /\ Cardinality(ForegroundCodes(toString(cellObj))) =
       IF cellObj.foreground = "none" THEN 0 ELSE 1

\* C24: in every state of a cell reachable through its mutators the cell's
\* character is exactly one display unit: setChar of a longer string stores
\* its first unit, setChar with an omitted or empty argument stores a space.
C24_CharIsOneUnit ==
  /\ Len(cellObj.char) = 1
  /\ last.op = "setChar" =>
       cellObj.char = IF Len(last.args) = 0 \/ Len(last.args[1]) = 0
                     THEN <<" ">>
                     ELSE <<last.args[1][1]>>

(***************************************************************************)
(* The relative-move specification: the cursor is placed, text is written  *)
(* and the cursor is moved by offsets of either sign, whole and fractional.*)
(***************************************************************************)
MaxRel == 3

InitRel == Fresh /\ budget = MaxRel

NextRel == MoveBy \/ MoveTo \/ Write

SpecRel == InitRel /\ [][NextRel]_vars

(***************************************************************************)
(* C21: moveBy(dx, dy) does what right(dx) does when dx > 0, left(-dx)     *)
(* when dx < 0 and nothing for dx = 0, then what down(dy) does when        *)
(* dy > 0, up(-dy) when dy < 0 and nothing for dy = 0; for whole offsets   *)
(* the cursor ends at (x+dx, y+dy); moveBy(-dx, -dy) after moveBy(dx, dy)  *)
(* restores the cursor.  Offsets are in halves.                            *)
(***************************************************************************)
C21_MoveBy ==
  [][Called("moveBy") =>
       LET dx == last'.args[1]
           dy == last'.args[2]
           byX == IF dx > 0 THEN right(cursor, dx)
                  ELSE IF dx < 0 THEN left(cursor, -dx) ELSE cursor
           byXY == IF dy > 0 THEN down(byX, dy)
                   ELSE IF dy < 0 THEN up(byX, -dy) ELSE byX
       IN  /\ cursor' = byXY
           /\ (dx % 2 = 0 /\ dy % 2 = 0) =>
                /\ 2 * cursor'.x = 2 * cursor.x + dx
                /\ 2 * cursor'.y = 2 * cursor.y + dy
           /\ moveBy(cursor', -dx, -dy) = cursor
           /\ (/\ last.op = "moveBy"
               /\ budget = MaxRel - 1
               /\ dx = -last.args[1]
               /\ dy = -last.args[2]) =>
                (cursor'.x = 0 /\ cursor'.y = 0)]_vars

\* moveBy(-1.5, 1) as the second call, after a moveBy, has brought the
\* cursor back to the origin.
C21_Witness ==
  /\ last.op = "moveBy"
  /\ last.prev = "moveBy"
  /\ budget = MaxRel - 2
  /\ last.args = <<-3, 2>>
  /\ cursor.x = 0
  /\ cursor.y = 0

\* The sequence each immediate operation sends.
ImmediateSequences ==
  [saveScreen |-> ESC \o "[?47h",
   restoreScreen |-> ESC \o "[?47l",
   hideCursor |-> ESC \o "[?25l",
   showCursor |-> ESC \o "[?25h",
   reset |-> ESC \o "c"]

(***************************************************************************)
(* C22: saveScreen, restoreScreen, hideCursor, showCursor and reset each   *)
(* append exactly one predefined sequence to the stream at the call        *)
(* (ESC[?47h, ESC[?47l, ESC[?25l, ESC[?25h, ESCc) and leave the grid, the  *)
(* dirty flags, the shadow, the cursor position and the pen unchanged.     *)
(***************************************************************************)
C22_ImmediateOperations ==
  [][\A op \in DOMAIN ImmediateSequences :
       Called(op) =>
         /\ cursor'.stream = Append(cursor.stream, <<ImmediateSequences[op]>>)
         /\ cursor'.cells = cursor.cells
         /\ cursor'.lastFrame = cursor.lastFrame
         /\ cursor'.x = cursor.x /\ cursor'.y = cursor.y
         /\ cursor'.background = cursor.background
         /\ cursor'.foreground = cursor.foreground
         /\ cursor'.display = cursor.display]_vars

\* hideCursor after a write and a flush has put ESC[?25l behind the flushed
\* cell.
C22_Witness ==
  /\ last.op = "hideCursor"
  /\ last.prev = "flush"
  /\ Len(cursor.stream) = 2
  /\ cursor.stream[1] = <<ESC \o "[1;1f", "A", ESC \o "[0m">>
  /\ cursor.stream[2] = <<ESC \o "[?25l">>

(***************************************************************************)
(* C29: in every reachable state, every cell that is not dirty either has  *)
(* never been marked dirty (default content, empty shadow entry) or has a  *)
(* shadow entry equal to its current rendered string.                      *)
(***************************************************************************)
C29_CleanCellsMatchShadow ==
  \A i \in Indices :
    ~isModified(cursor.cells[i]) =>
      \/ cursor.cells[i] = NewCell /\ cursor.lastFrame[i] = <<>>
      \/ cursor.lastFrame[i] = toString(cursor.cells[i])

\* After a flush the cell with "A" is clean and equal to its shadow, next to
\* a cell that has never been dirty; the last call changed no cell.
C29_Witness ==
  /\ last.prev = "flush"
  /\ last.op \in {"eraseToEnd", "up", "bold"}
  /\ cursor.cells[0].char = <<"A">>
  /\ ~isModified(cursor.cells[0])
  /\ cursor.lastFrame[0] = <<ESC \o "[1;1f", "A", ESC \o "[0m">>
  /\ cursor.cells[width] = NewCell
  /\ cursor.lastFrame[width] = <<>>

(***************************************************************************)
(* C30: a freshly constructed screen has the cursor at (0,0), the pen      *)
(* background none, foreground none and all style flags false, width *     *)
(* height default cells none of which is dirty, width * height empty       *)
(* shadow entries and nothing in the stream; a flush issued before any     *)
(* drawing call writes nothing.                                            *)
(***************************************************************************)
C30_FreshScreen ==
  [][/\ last.op = "new" =>
          /\ cursor.x = 0 /\ cursor.y = 0
          /\ cursor.background = "none" /\ cursor.foreground = "none"
          /\ \A flag \in DOMAIN cursor.display : cursor.display[flag] = FALSE
          /\ DOMAIN cursor.display =
               {"bold", "dim", "underlined", "blink", "reverse", "hidden"}
          /\ length(cursor.cells) = width * height
          /\ \A i \in Indices :
               /\ cursor.cells[i].char = <<" ">>
               /\ cursor.cells[i].background = "none"
               /\ cursor.cells[i].foreground = "none"
               /\ \A flag \in DOMAIN cursor.cells[i].display :
                    cursor.cells[i].display[flag] = FALSE
               /\ ~isModified(cursor.cells[i])
          /\ length(cursor.lastFrame) = width * height
          /\ \A i \in Indices : cursor.lastFrame[i] = <<>>
          /\ cursor.stream = <<>>
     /\ (Called("flush") /\ \A i \in Indices : cursor.cells[i] = NewCell) =>
          /\ cursor'.stream = cursor.stream
          /\ lastFlush'.written = <<>>
          /\ cursor'.lastFrame = cursor.lastFrame]_vars

\* A flush after a move down and before any drawing call has left the stream
\* empty.
C30_Witness ==
  /\ last.op = "flush"
  /\ last.prev = "down"
  /\ cursor.y >= 1
  /\ cursor.stream = <<>>
  /\ \A i \in Indices : cursor.lastFrame[i] = <<>>

\* The concatenation of the strings of a sequence, in order.
RECURSIVE Concat(_)
Concat(strings) ==
  IF strings = <<>> THEN <<>> ELSE Head(strings) \o Concat(Tail(strings))

C27_CellsHoldTheirPosition ==
  \A i \in Indices :
    /\ (isModified(cursor.cells[i]) \/ cursor.lastFrame[i] # <<>>) =>
         /\ cursor.cells[i].x = i % width
         /\ cursor.cells[i].y = i \div width
    /\ cursor.lastFrame[i] # <<>> =>
         cursor.lastFrame[i][1] =
           ESC \o "[" \o ToString((i \div width) + 1) \o ";"
               \o ToString((i % width) + 1) \o "f"

(***************************************************************************)
(* C28: each non-empty shadow entry equals the string most recently        *)
(* written to the stream by flush for that index, and an empty shadow      *)
(* entry means flush has never written anything for that index: at the     *)
(* start the shadow and the stream are empty, a flush sets the shadow      *)
(* entry of every index it writes for to the (non-empty) string it writes  *)
(* and leaves the others, and no other step changes the shadow.            *)
(***************************************************************************)
C28_ShadowIsLastWritten ==
  [][/\ last.op = "new" =>
          (cursor.stream = <<>> /\ \A i \in Indices : cursor.lastFrame[i] = <<>>)
     /\ IF Called("flush")
          THEN \A i \in Indices :
                 LET at == {k \in 1 .. Len(lastFlush'.written) :
                              lastFlush'.written[k] = i}
                 IN  IF at = {}
                       THEN cursor'.lastFrame[i] = cursor.lastFrame[i]
                       ELSE /\ Cardinality(at) = 1
                            /\ \A k \in at :
                                 /\ cursor'.stream[Len(cursor.stream) + k]
                                      = cursor'.lastFrame[i]
                                 /\ cursor'.lastFrame[i] # <<>>
          ELSE cursor'.lastFrame = cursor.lastFrame]_vars

\* The shadow entry of cell 1 is the blank string of the second flush, which
\* replaced the "B" string of the first; the entry of the first cell of the
\* second row is the blank string written for it last.
C28_Witness ==
  /\ last.op = "flush"
  /\ last.prev = "erase"
  /\ Len(cursor.stream) >= 3
  /\ cursor.stream[2] = <<ESC \o "[1;2f", "B", ESC \o "[0m">>
  /\ cursor.lastFrame[1] = <<ESC \o "[1;2f", " ", ESC \o "[0m">>
  /\ \E k \in 3 .. Len(cursor.stream) : cursor.stream[k] = cursor.lastFrame[1]
  /\ cursor.stream[Len(cursor.stream)] = cursor.lastFrame[width * height - 1]

(***************************************************************************)
(* The construction specification: new Cursor(options) with and without    *)
(* width and height, on a stream that reports its columns and rows or      *)
(* does not.  An option or stream property that is absent is an empty      *)
(* list, one that is present a list of one number.                         *)
(***************************************************************************)
MaxNoSize == 2

\* The value of a variable whose default is an absent property.
Undefined == "undefined"

\* The constructor: width and height default to stream.columns and
\* stream.rows; Array.from({length: width * height}) is empty when the
\* product is NaN.
Cursor_constructor(options) ==
  LET w == IF options.width # <<>> THEN options.width ELSE options.stream.columns
      h == IF options.height # <<>> THEN options.height ELSE options.stream.rows
      n == IF w = <<>> \/ h = <<>> THEN 0 ELSE w[1] * h[1]
  IN  [width |-> IF w = <<>> THEN Undefined ELSE w[1],
       height |-> IF h = <<>> THEN Undefined ELSE h[1],
       x |-> 0, y |-> 0,
       background |-> "none", foreground |-> "none", display |-> NoDisplay,
       cells |-> [i \in 0 .. (n - 1) |-> NewCell],
       lastFrame |-> [i \in 0 .. (n - 1) |-> <<>>],
       stream |-> <<>>]

SizeOptions ==
  [width : {<<>>, <<width>>},
   height : {<<>>, <<height>>},
   stream : [columns : {<<>>, <<width>>}, rows : {<<>>, <<height>>}]]

InitNoSize ==
  /\ \E options \in SizeOptions :
       /\ cursor = Cursor_constructor(options)
       /\ last = [op |-> "new", args |-> <<options>>, prev |-> "none"]
  /\ cellObj = NewCell
  /\ lastFlush = [dirty |-> {}, written |-> <<>>]
  /\ budget = MaxNoSize

NextNoSize == Flush \/ MoveTo \/ Background \/ Bold \/ HideCursor

SpecNoSize == InitNoSize /\ [][NextNoSize]_vars

\* C25: when no width / height is supplied and the stream reports no
\* columns / rows, the failure to determine the viewport size is surfaced as
\* an error and no screen is produced: a constructed Cursor has a width and
\* a height that an option or the stream supplied.
C25_NoSizeIsAnError ==
  last.op = "new" =>
    /\ last.args[1].width # <<>> \/ last.args[1].stream.columns # <<>>
    /\ last.args[1].height # <<>> \/ last.args[1].stream.rows # <<>>

\* The names of the pen setters.
PenSetters ==
  {"foreground", "background", "bold", "dim", "underlined", "blink",
   "reverse", "hidden"}

(***************************************************************************)
(* C31: changing the pen (foreground, background, bold, dim, underlined,   *)
(* blink, reverse, hidden) changes no existing cell's colours or style     *)
(* flags and marks no cell dirty: the grid stays as it is, the flags of a  *)
(* written cell being a copy made at write time.                           *)
(***************************************************************************)
C31_PenChangeLeavesCells ==
  [][(\E op \in PenSetters : Called(op)) =>
       /\ cursor'.cells = cursor.cells
       /\ cursor'.lastFrame = cursor.lastFrame
       /\ cursor'.stream = cursor.stream
       /\ cursor'.x = cursor.x /\ cursor'.y = cursor.y]_vars

\* bold(true) after write('A'): the pen is bold, the written cell is not.
C31_Witness ==
  /\ last.op = "bold"
  /\ last.args = <<TRUE>>
  /\ last.prev = "write"
  /\ cursor.display.bold
  /\ cursor.cells[0].char = <<"A">>
  /\ ~cursor.cells[0].display.bold
  /\ isModified(cursor.cells[0])

\* The names of erase and its variants.
Erasures ==
  {"erase", "eraseToEnd", "eraseToStart", "eraseToDown", "eraseToUp",
   "eraseLine", "eraseScreen"}

(***************************************************************************)
(* C32: resetting a cell (Cell.reset, as erase uses it) sets its character *)
(* to space, both colours to none, all six style flags to false and its    *)
(* dirty flag to true and leaves its stored x and y unchanged; erase       *)
(* leaves the cursor position, the pen, the shadow and the stream          *)
(* unchanged.                                                              *)
(***************************************************************************)
C32_ResetKeepsCoordinates ==
  [][(\E op \in Erasures : Called(op)) =>
       /\ \A i \in Indices :
            \/ cursor'.cells[i] = cursor.cells[i]
            \/ cursor'.cells[i] =
                 [char |-> <<" ">>,
                  x |-> cursor.cells[i].x,
                  y |-> cursor.cells[i].y,
                  background |-> "none",
                  foreground |-> "none",
                  display |-> [bold |-> FALSE, dim |-> FALSE,
                               underlined |-> FALSE, blink |-> FALSE,
                               reverse |-> FALSE, hidden |-> FALSE],
                  modified |-> TRUE]
       /\ cursor'.x = cursor.x /\ cursor'.y = cursor.y
       /\ cursor'.background = cursor.background
       /\ cursor'.foreground = cursor.foreground
       /\ cursor'.display = cursor.display
       /\ cursor'.lastFrame = cursor.lastFrame
       /\ cursor'.stream = cursor.stream]_vars

\* An erasure has reset the yellow "B" written at column 1: the cell is a
\* dirty blank that still holds x = 1, the pen is still yellow and the cursor
\* still behind the text.
C32_Witness ==
  /\ last.op \in Erasures
  /\ last.prev = "write"
  /\ cursor.background = "YELLOW"
  /\ cursor.x = 2 /\ cursor.y = 0
  /\ cursor.cells[1] =
       [NewCell EXCEPT !.x = 1, !.modified = TRUE]

(***************************************************************************)
(* C33: flush changes only dirty flags, shadow entries and the stream: it  *)
(* leaves the cursor position, the pen and every cell's character,         *)
(* coordinates, colours and style flags unchanged.                         *)
(***************************************************************************)
C33_FlushKeepsContent ==
  [][Called("flush") =>
       /\ cursor'.x = cursor.x /\ cursor'.y = cursor.y
       /\ cursor'.background = cursor.background
       /\ cursor'.foreground = cursor.foreground
       /\ cursor'.display = cursor.display
       /\ cursor'.width = cursor.width /\ cursor'.height = cursor.height
       /\ \A i \in Indices :
            /\ cursor'.cells[i].char = cursor.cells[i].char
            /\ cursor'.cells[i].x = cursor.cells[i].x
            /\ cursor'.cells[i].y = cursor.cells[i].y
            /\ cursor'.cells[i].background = cursor.cells[i].background
            /\ cursor'.cells[i].foreground = cursor.cells[i].foreground
            /\ cursor'.cells[i].display = cursor.cells[i].display]_vars

\* A flush has written the bold "A": the cell is clean and still the bold
\* "A", the pen still bold, the cursor still behind the text.
C33_Witness ==
  /\ last.op = "flush"
  /\ last.prev = "write"
  /\ cursor.display.bold
  /\ cursor.x = 1
  /\ cursor.cells[0].char = <<"A">>
  /\ cursor.cells[0].display.bold
  /\ ~isModified(cursor.cells[0])
  /\ Len(cursor.stream) = 1

(***************************************************************************)
(* The ordering specification: writes, immediate operations and flushes in *)
(* any order.                                                              *)
(***************************************************************************)
MaxOrder == 3

InitOrder == Fresh /\ budget = MaxOrder

NextOrder ==
  \/ Write \/ Flush
  \/ SaveScreen \/ RestoreScreen \/ HideCursor \/ ShowCursor \/ Reset

SpecOrder == InitOrder /\ [][NextOrder]_vars

(***************************************************************************)
(* C34: the stream receives output in the order of the calls that perform  *)
(* I/O, not of the drawing calls: an immediate operation called after a    *)
(* write and before the next flush appends its sequence at once and        *)
(* leaves the written cells pending, and the flush that follows appends    *)
(* the strings of those cells behind that sequence.                        *)
(***************************************************************************)
C34_StreamInCallOrder ==
  [][/\ ((\E op \in DOMAIN ImmediateSequences : Called(op)) /\ last.op = "write") =>
          /\ cursor'.stream =
               Append(cursor.stream, <<ImmediateSequences[last'.op]>>)
          /\ \A i \in Indices :
               isModified(cursor.cells[i]) => isModified(cursor'.cells[i])
     /\ (/\ Called("flush")
         /\ last.op \in DOMAIN ImmediateSequences
         /\ last.prev = "write") =>
          LET n == Len(cursor.stream)
              written == lastFlush'.written
          IN  /\ n >= 1
              /\ cursor.stream[n] = <<ImmediateSequences[last.op]>>
              /\ SubSeq(cursor'.stream, 1, n) = cursor.stream
              /\ Len(cursor'.stream) = n + Len(written)
              /\ \A k \in 1 .. Len(written) :
                   cursor'.stream[n + k] = toString(cursor'.cells[written[k]])
              /\ \A i \in Indices :
                   (/\ isModified(cursor.cells[i])
                    /\ toString(setModified(cursor.cells[i], FALSE))
                         # cursor.lastFrame[i]) =>
                     i \in Range(written)]_vars

\* write('AB'), hideCursor(), flush(): the stream holds ESC[?25l and behind
\* it the strings of the two cells.
C34_Witness ==
  /\ last.op = "flush"
  /\ last.prev = "hideCursor"
  /\ Len(cursor.stream) = 3
  /\ cursor.stream[1] = <<ESC \o "[?25l">>
  /\ cursor.stream[2] = <<ESC \o "[1;1f", "A", ESC \o "[0m">>
  /\ cursor.stream[3] = <<ESC \o "[1;2f", "B", ESC \o "[0m">>

====
